---- MODULE Spec2Model ----
(***************************************************************************)
(* Model of streamlit_app.py: the concrete-strength calculator.            *)
(*                                                                         *)
(* One Streamlit server process serves several browser sessions.  Every    *)
(* user interaction reruns the whole script for that session: the script   *)
(* calls load_assets() (memoised per process by st.cache_resource), and,   *)
(* when both artifacts are truthy, renders the input form and, if the      *)
(* button was clicked, computes and renders the comparison table.          *)
(*                                                                         *)
(* Quantities are integers.  A widget value is a number of units above     *)
(* its min_value of 0; a strength is an integer number of MPa; the         *)
(* quotient mejora_pct is kept as an exact fraction (see Mejora).          *)
(***************************************************************************)
EXTENDS Integers, Sequences, FiniteSets, TLC

VARIABLES
    modelFile,    \* state of modelo_concreto_unificado.pkl on disk
    scalerFile,   \* state of escalador_concreto_unificado.pkl on disk
    cache,        \* the st.cache_resource entry of load_assets
    lock,         \* holder of the entry's compute lock, 0 when free
    loads,        \* executions of the body of load_assets so far
    diskReads,    \* joblib.load calls so far
    nextId,       \* identity given to the next unpickled object
    pc,           \* per session: position of its script run
    button,       \* per session: value of st.sidebar.button in this run
    widgets,      \* per session: values of the 9 number_input widgets
    assets,       \* per session: the script's globals model, scaler
    ui,           \* per session: what its current or last run has rendered
    calc,         \* per session: the data computed by that run's handler
    failedOnce,   \* history: some load_assets execution has failed
    predictCalls  \* history: model.predict has been called

vars == <<modelFile, scalerFile, cache, lock, loads, diskReads, nextId, pc,
          button, widgets, assets, ui, calc, failedOnce, predictCalls>>

---------------------------------------------------------------------------
(* Bounds *)

NumSessions == 2
MaxLoads == 3
MaxAmount == 1

Sessions == 1..NumSessions
Amounts == 0..MaxAmount

---------------------------------------------------------------------------
(* Program constants *)

FEATURE_COLUMNS ==
    << "cemento_kg_m3", "pac_kg_m3", "escoria_alto_horno_kg_m3",
       "ceniza_volante_kg_m3", "agua_kg_m3", "superplastificante_kg_m3",
       "agregado_grueso_kg_m3", "agregado_fino_kg_m3",
       "activador_quimico_pct", "edad_curado_dias" >>

\* The keys of the dict built by user_inputs, in insertion order.
InputKeys ==
    << "cemento_kg_m3", "pac_kg_m3", "activador_quimico_pct",
       "escoria_alto_horno_kg_m3", "ceniza_volante_kg_m3", "agua_kg_m3",
       "superplastificante_kg_m3", "agregado_grueso_kg_m3",
       "agregado_fino_kg_m3" >>

InputKeySet == {InputKeys[i] : i \in 1..Len(InputKeys)}

edades_curado == <<7, 14, 28, 56, 90>>

\* epsilon = 1e-6 = 1 / EpsilonInv
EpsilonInv == 1000000

COL_EDAD == "Edad de Curado (dias)"
COL_CON_PAC == "Resistencia Mezcla con PAC (MPa)"
COL_SIN_PAC == "Resistencia Control sin PAC (MPa)"
COL_VARIACION == "Variacion (%)"

ResultColumns == <<COL_EDAD, COL_CON_PAC, COL_SIN_PAC, COL_VARIACION>>

STYLE_POS == "background-color: #d4edda"
STYLE_NEG == "background-color: #f8d7da"
STYLE_NONE == ""

---------------------------------------------------------------------------
(* Python dicts: a sequence of <<key, value>> pairs in insertion order *)

HasKey(d, k) == \E i \in 1..Len(d) : d[i][1] = k

\* d[k]
DictGet(d, k) == d[CHOOSE i \in 1..Len(d) : d[i][1] = k][2]

\* d[k] = v : replaces in place, or appends a new key at the end
DictSet(d, k, v) ==
    IF HasKey(d, k)
    THEN [i \in 1..Len(d) |-> IF d[i][1] = k THEN <<k, v>> ELSE d[i]]
    ELSE Append(d, <<k, v>>)

\* user_inputs(): the dict of the 9 widget values
user_inputs(w) == [i \in 1..Len(InputKeys) |-> <<InputKeys[i], w[InputKeys[i]]>>]

---------------------------------------------------------------------------
(* The prediction logic of the button handler *)

\* A mezcla list built without .copy(): every element is the one dict,
\* which ends up holding the last age.
MezclaListAliased(d) ==
    [i \in 1..Len(edades_curado) |->
        DictSet(d, "edad_curado_dias", edades_curado[Len(edades_curado)])]

\* for edad in edades_curado: fila = d.copy(); fila['edad_curado_dias'] = edad
MezclaList(d) ==
    [i \in 1..Len(edades_curado) |->
        DictSet(d, "edad_curado_dias", edades_curado[i])]

\* A frame that takes each dict's values in insertion order.
DataFramePositional(list, columns) ==
    [i \in 1..Len(list) |-> [j \in 1..Len(columns) |-> list[i][j][2]]]

\* pd.DataFrame(list_of_dicts, columns=columns): each row holds the dict's
\* values selected by column name, in the order of columns.
DataFrame(list, columns) ==
    [i \in 1..Len(list) |->
        [j \in 1..Len(columns) |-> DictGet(list[i], columns[j])]]

\* A control mix that also removes the cement.
InputsSinPacNiCemento(d) ==
    DictSet(DictSet(DictSet(d, "pac_kg_m3", 0), "activador_quimico_pct", 0),
            "cemento_kg_m3", 0)

\* A control mix that only removes the PAC sludge.
InputsSinPacOnlyPac(d) == DictSet(d, "pac_kg_m3", 0)

\* inputs_sin_pac = input_data.copy(); ['pac_kg_m3'] = 0;
\* ['activador_quimico_pct'] = 0
InputsSinPac(d) ==
    DictSet(DictSet(d, "pac_kg_m3", 0), "activador_quimico_pct", 0)

(* The two artifacts are opaque pickles.  A scaler is a fitted per-feature *)
(* affine map and a regressor a fitted function of the scaled 10-vector;   *)
(* the kinds below are the artifacts a deployment may hold.                *)
ScalerKinds == {"unit", "affine"}
ModelKinds == {"gain", "loss", "aged"}

ScaleRow(kind, x) ==
    IF kind = "unit" THEN x ELSE [j \in 1..Len(x) |-> 2 * x[j] - 1]

\* scaler.transform(df)
Transform(kind, df) == [i \in 1..Len(df) |-> ScaleRow(kind, df[i])]

Weights(kind) ==
    CASE kind = "gain" -> <<3, 2, 1, 1, -2, 1, 0, 0, 1, 0>>
      [] kind = "loss" -> <<2, -4, 1, 0, -3, 0, 1, 0, -2, 0>>
      [] kind = "aged" -> <<1, 1, 0, 0, -1, 0, 0, 0, 0, 1>>

Bias(kind) == IF kind = "aged" THEN -20 ELSE 0

RECURSIVE Dot(_, _)
Dot(w, x) ==
    IF Len(w) = 0 THEN 0 ELSE Head(w) * Head(x) + Dot(Tail(w), Tail(x))

\* model.predict(X)
Predict(kind, X) == [i \in 1..Len(X) |-> Dot(Weights(kind), X[i]) + Bias(kind)]

\* No clamping.
ClipNone(a) == a

\* ndarray.clip(min=0)
Clip(a) == [i \in 1..Len(a) |-> IF a[i] < 0 THEN 0 ELSE a[i]]

\* The quotient without epsilon in the divisor.
MejoraNoEpsilon(t, c) == [num |-> (t - c) * 100, den |-> c * EpsilonInv]

\* ((t - c) / (c + epsilon)) * 100 as the exact fraction
\* EpsilonInv * num / den, with den = (c + epsilon) * EpsilonInv.
Mejora(t, c) == [num |-> (t - c) * 100, den |-> c * EpsilonInv + 1]

\* v > 0 and v < 0 for a fraction; a zero divisor gives +-inf or nan
Gt0(v) ==
    \/ v.num > 0 /\ v.den >= 0
    \/ v.num < 0 /\ v.den < 0

Lt0(v) ==
    \/ v.num < 0 /\ v.den >= 0
    \/ v.num > 0 /\ v.den < 0

MejoraPct(pu, ps) == [i \in 1..Len(pu) |-> Mejora(pu[i], ps[i])]

\* pd.DataFrame({...}): one row per age, columns in ResultColumns order
ResultadosDf(pu, ps, mejora) ==
    [i \in 1..Len(edades_curado) |-> <<edades_curado[i], pu[i], ps[i], mejora[i]>>]

\* The label of row i in the RangeIndex of resultados_df.
RowLabels == <<"0", "1", "2", "3", "4">>

\* The lambda given to Styler.apply: x is a Series, name its label.
StyleFn(name, x) ==
    [k \in 1..Len(x) |->
        IF name = COL_VARIACION /\ Gt0(x[k]) THEN STYLE_POS
        ELSE IF name = COL_VARIACION /\ Lt0(x[k]) THEN STYLE_NEG
        ELSE STYLE_NONE]

\* Styler.apply(func, axis): axis = 0 hands func each column, labelled by
\* the column name; axis = 1 hands it each row, labelled by the row's index
\* label.  The result has the frame's shape: styles[i][j] for row i, col j.
StylerApply(df, axis) ==
    IF axis = 1
    THEN [i \in 1..Len(df) |-> StyleFn(RowLabels[i], df[i])]
    ELSE LET col(j) == [i \in 1..Len(df) |-> df[i][j]]
             st(j) == StyleFn(ResultColumns[j], col(j))
         IN [i \in 1..Len(df) |-> [j \in 1..Len(ResultColumns) |-> st(j)[i]]]

\* Lines 70-121: everything the handler computes from input_data.
Calcular(input_data, model, scaler) ==
    LET df_usuario == DataFrame(MezclaList(input_data), FEATURE_COLUMNS)
        inputs_sin_pac == InputsSinPac(input_data)
        df_sin_pac == DataFrame(MezclaList(inputs_sin_pac), FEATURE_COLUMNS)
        raw_usuario == Predict(model.kind, Transform(scaler.kind, df_usuario))
        raw_sin_pac == Predict(model.kind, Transform(scaler.kind, df_sin_pac))
        predicciones_usuario == Clip(raw_usuario)
        predicciones_sin_pac == Clip(raw_sin_pac)
        mejora_pct == MejoraPct(predicciones_usuario, predicciones_sin_pac)
        resultados_df ==
            ResultadosDf(predicciones_usuario, predicciones_sin_pac, mejora_pct)
    IN [input_data |-> input_data,
        df_usuario |-> df_usuario,
        df_sin_pac |-> df_sin_pac,
        raw_usuario |-> raw_usuario,
        raw_sin_pac |-> raw_sin_pac,
        resultados_df |-> resultados_df,
        estilos |-> StylerApply(resultados_df, 1)]

NoCalc ==
    [input_data |-> <<>>, df_usuario |-> <<>>, df_sin_pac |-> <<>>,
     raw_usuario |-> <<>>, raw_sin_pac |-> <<>>, resultados_df |-> <<>>,
     estilos |-> <<>>]

---------------------------------------------------------------------------
(* The process: artifact files, the resource cache, the sessions *)

FileStates == {"ok", "absent", "unreadable"}

None == [id |-> 0, kind |-> "None"]
NonePair == [model |-> None, scaler |-> None]

\* bool(x) of "if model and scaler"
Truthy(x) == x.kind # "None"

EmptyCache == [set |-> FALSE, value |-> NonePair]

\* The cache never answers: every call runs the function again.
CacheHitNever == FALSE

\* st.cache_resource: the entry of load_assets() holds a value
CacheHit == cache.set

\* The values of the number_input widgets when a session opens:
\* 1 unit where the source's default is above min_value, else 0.
DefaultWidgets ==
    [k \in InputKeySet |->
        IF k \in {"escoria_alto_horno_kg_m3", "ceniza_volante_kg_m3",
                  "superplastificante_kg_m3"}
        THEN 0 ELSE 1]

BlankUi == [diag |-> "none", form |-> FALSE, view |-> "none"]

Init ==
    /\ modelFile \in FileStates
    /\ scalerFile \in FileStates
    /\ cache = EmptyCache
    /\ lock = 0
    /\ loads = 0
    /\ diskReads = 0
    /\ nextId = 1
    /\ pc = [s \in Sessions |-> "idle"]
    /\ button = [s \in Sessions |-> FALSE]
    /\ widgets = [s \in Sessions |-> DefaultWidgets]
    /\ assets = [s \in Sessions |-> NonePair]
    /\ ui = [s \in Sessions |-> BlankUi]
    /\ calc = [s \in Sessions |-> NoCalc]
    /\ failedOnce = FALSE
    /\ predictCalls = FALSE

\* A script run of session s starts: the previous run's locals are gone and
\* its elements are replaced by what this run renders.  The run reaches
\* line 26, where load_assets() is looked up in the resource cache without
\* the lock.
RunScript(s, btn, w) ==
    /\ pc[s] = "idle"
    /\ button' = [button EXCEPT ![s] = btn]
    /\ widgets' = [widgets EXCEPT ![s] = w]
    /\ IF CacheHit
       THEN /\ assets' = [assets EXCEPT ![s] = cache.value]
            /\ pc' = [pc EXCEPT ![s] = "body"]
       ELSE /\ assets' = assets
            /\ pc' = [pc EXCEPT ![s] = "lockwait"]
    /\ ui' = [ui EXCEPT ![s] = BlankUi]
    /\ calc' = [calc EXCEPT ![s] = NoCalc]
    /\ UNCHANGED <<modelFile, scalerFile, cache, lock, loads, diskReads,
                   nextId, failedOnce, predictCalls>>

\* The page is opened or refreshed.
Open(s) == RunScript(s, FALSE, widgets[s])

\* A number_input of the rendered form is changed.
Edit(s, k, v) ==
    /\ ui[s].form
    /\ v # widgets[s][k]
    /\ RunScript(s, FALSE, [widgets[s] EXCEPT ![k] = v])

\* The rendered button is clicked.
Click(s) ==
    /\ ui[s].form
    /\ RunScript(s, TRUE, widgets[s])

\* On a miss the caller takes the entry's compute lock and looks again.
AcquireLock(s) ==
    /\ pc[s] = "lockwait"
    /\ lock = 0
    /\ IF CacheHit
       THEN /\ assets' = [assets EXCEPT ![s] = cache.value]
            /\ pc' = [pc EXCEPT ![s] = "body"]
            /\ UNCHANGED <<lock, loads>>
       ELSE /\ loads < MaxLoads
            /\ lock' = s
            /\ loads' = loads + 1
            /\ pc' = [pc EXCEPT ![s] = "loading"]
            /\ assets' = assets
    /\ UNCHANGED <<modelFile, scalerFile, cache, diskReads, nextId, button,
                   widgets, ui, calc, failedOnce, predictCalls>>

\* Outcome of the two joblib.load calls of load_assets, from the files.
LoadOutcome ==
    IF modelFile = "ok" /\ scalerFile = "ok" THEN "loaded"
    ELSE IF modelFile = "absent" \/ (modelFile = "ok" /\ scalerFile = "absent")
    THEN "FileNotFoundError"
    ELSE "OtherError"

\* joblib.load calls made: the second one only if the first returned.
ReadsMade == IF modelFile = "ok" THEN 2 ELSE 1

\* The body of load_assets, run under the lock, and the cache's handling
\* of its outcome: a returned value is stored, an exception is not.
LoadAssets(s) ==
    /\ pc[s] = "loading"
    /\ lock = s
    /\ lock' = 0
    /\ diskReads' = diskReads + ReadsMade
    /\ CASE LoadOutcome = "loaded" ->
              \E mk \in ModelKinds, sk \in ScalerKinds :
                LET pair == [model |-> [id |-> nextId, kind |-> mk],
                             scaler |-> [id |-> nextId + 1, kind |-> sk]]
                IN /\ cache' = [set |-> TRUE, value |-> pair]
                   /\ assets' = [assets EXCEPT ![s] = pair]
                   /\ nextId' = nextId + 2
                   /\ pc' = [pc EXCEPT ![s] = "body"]
                   /\ UNCHANGED <<ui, calc, failedOnce>>
         [] LoadOutcome = "FileNotFoundError" ->
              /\ cache' = [set |-> TRUE, value |-> NonePair]
              /\ assets' = [assets EXCEPT ![s] = NonePair]
              /\ failedOnce' = TRUE
              /\ pc' = [pc EXCEPT ![s] = "body"]
              /\ UNCHANGED <<nextId, ui, calc>>
         [] LoadOutcome = "OtherError" ->
              /\ failedOnce' = TRUE
              /\ ui' = [ui EXCEPT ![s] =
                          [diag |-> "exception", form |-> FALSE, view |-> "none"]]
              /\ calc' = [calc EXCEPT ![s] = NoCalc]
              /\ pc' = [pc EXCEPT ![s] = "idle"]
              /\ UNCHANGED <<cache, assets, nextId>>
    /\ UNCHANGED <<modelFile, scalerFile, loads, button, widgets, predictCalls>>

\* Lines 28-138: the rest of the script.
ScriptBody(s) ==
    /\ pc[s] = "body"
    /\ pc' = [pc EXCEPT ![s] = "idle"]
    /\ IF Truthy(assets[s].model) /\ Truthy(assets[s].scaler)
       THEN IF button[s]
            THEN /\ calc' = [calc EXCEPT ![s] =
                       Calcular(user_inputs(widgets[s]),
                                assets[s].model, assets[s].scaler)]
                 /\ ui' = [ui EXCEPT ![s] =
                       [diag |-> "none", form |-> TRUE, view |-> "result"]]
                 /\ predictCalls' = TRUE
            ELSE /\ calc' = [calc EXCEPT ![s] = NoCalc]
                 /\ ui' = [ui EXCEPT ![s] =
                       [diag |-> "none", form |-> TRUE, view |-> "info"]]
                 /\ UNCHANGED predictCalls
       ELSE /\ calc' = [calc EXCEPT ![s] = NoCalc]
            /\ ui' = [ui EXCEPT ![s] =
                  [diag |-> "st.error", form |-> FALSE, view |-> "none"]]
            /\ UNCHANGED predictCalls
    /\ UNCHANGED <<modelFile, scalerFile, cache, lock, loads, diskReads,
                   nextId, button, widgets, assets, failedOnce>>

\* The deployment changes an artifact file while the process runs.
FsChange ==
    /\ \E m \in FileStates, c \in FileStates :
          /\ <<m, c>> # <<modelFile, scalerFile>>
          /\ modelFile' = m
          /\ scalerFile' = c
    /\ UNCHANGED <<cache, lock, loads, diskReads, nextId, pc, button,
                   widgets, assets, ui, calc, failedOnce, predictCalls>>

Next ==
    \/ \E s \in Sessions : Open(s)
    \/ \E s \in Sessions : Click(s)
    \/ \E s \in Sessions : AcquireLock(s)
    \/ \E s \in Sessions : LoadAssets(s)
    \/ \E s \in Sessions : ScriptBody(s)
    \/ FsChange

Spec == Init /\ [][Next]_vars

(* One session working the form of a process whose artifacts are loaded:  *)
(* the state after that session's first run has loaded them and rendered  *)
(* the form.                                                              *)
CalcSession == 1

InitCalc ==
    /\ modelFile = "ok"
    /\ scalerFile = "ok"
    /\ \E mk \in ModelKinds, sk \in ScalerKinds :
          LET pair == [model |-> [id |-> 1, kind |-> mk],
                       scaler |-> [id |-> 2, kind |-> sk]]
          IN /\ cache = [set |-> TRUE, value |-> pair]
             /\ assets = [s \in Sessions |->
                             IF s = CalcSession THEN pair ELSE NonePair]
    /\ lock = 0
    /\ loads = 1
    /\ diskReads = 2
    /\ nextId = 3
    /\ pc = [s \in Sessions |-> "idle"]
    /\ button = [s \in Sessions |-> FALSE]
    /\ widgets = [s \in Sessions |-> DefaultWidgets]
    /\ ui = [s \in Sessions |->
                IF s = CalcSession
                THEN [diag |-> "none", form |-> TRUE, view |-> "info"]
                ELSE BlankUi]
    /\ calc = [s \in Sessions |-> NoCalc]
    /\ failedOnce = FALSE
    /\ predictCalls = FALSE

NextCalc ==
    \/ Open(CalcSession)
    \/ \E k \in InputKeySet, v \in Amounts : Edit(CalcSession, k, v)
    \/ Click(CalcSession)
    \/ ScriptBody(CalcSession)

SpecCalc == InitCalc /\ [][NextCalc]_vars

---------------------------------------------------------------------------
(* Properties *)

\* Session s has run the button handler to its end and shows its table.
Done(s) == pc[s] = "idle" /\ ui[s].view = "result"

Table(s) == calc[s].resultados_df

\* Positions in FEATURE_COLUMNS of the 7 fields the control mix keeps.
KeptFields == {1, 3, 4, 5, 6, 7, 8}

\* C1: in every control row, for each of the 5 ages, pac_kg_m3 and
\* activador_quimico_pct are 0 whatever the user entered, and the other 7
\* mix fields are the user's values.
C1_ControlMix ==
    \A s \in Sessions : Done(s) =>
        /\ Len(calc[s].df_sin_pac) = 5
        /\ \A i \in 1..5 :
              LET row == calc[s].df_sin_pac[i]
              IN /\ row[2] = 0
                 /\ row[9] = 0
                 /\ \A j \in KeptFields : row[j] = widgets[s][FEATURE_COLUMNS[j]]

C1_Witness ==
    \E s \in Sessions :
        /\ Done(s)
        /\ widgets[s]["pac_kg_m3"] > 0
        /\ widgets[s]["activador_quimico_pct"] > 0
        /\ widgets[s]["escoria_alto_horno_kg_m3"] > 0
        /\ calc[s].df_sin_pac[5][2] = 0

\* C2: a calculation yields exactly 5 result rows, for the ages 7, 14, 28,
\* 56, 90 in that order, and the two strengths and the improvement of row i
\* are computed from the feature rows of that same i-th age.
C2_RowsPerAge ==
    \A s \in Sessions : Done(s) =>
        /\ Len(Table(s)) = 5
        /\ [i \in 1..5 |-> Table(s)[i][1]] = <<7, 14, 28, 56, 90>>
        /\ \A i \in 1..5 :
              LET u == calc[s].df_usuario[i]
                  c == calc[s].df_sin_pac[i]
                  m == assets[s].model.kind
                  k == assets[s].scaler.kind
                  pu == Predict(m, Transform(k, <<u>>))[1]
                  pc0 == Predict(m, Transform(k, <<c>>))[1]
              IN /\ u[10] = Table(s)[i][1]
                 /\ c[10] = Table(s)[i][1]
                 /\ Table(s)[i][2] = (IF pu < 0 THEN 0 ELSE pu)
                 /\ Table(s)[i][3] = (IF pc0 < 0 THEN 0 ELSE pc0)
                 /\ Table(s)[i][4].num = (Table(s)[i][2] - Table(s)[i][3]) * 100
                 /\ Table(s)[i][4].den = Table(s)[i][3] * EpsilonInv + 1

C2_Witness ==
    \E s \in Sessions :
        /\ Done(s)
        /\ Len(Table(s)) = 5
        /\ Table(s)[1][2] < Table(s)[2][2]
        /\ Table(s)[2][2] < Table(s)[5][2]
        /\ Table(s)[1][3] < Table(s)[5][3]
        /\ Table(s)[1][4] # Table(s)[5][4]

\* C3: every treatment and control strength of the result is >= 0: a
\* negative raw prediction shows as exactly 0, any other one unchanged.
C3_NonNegative ==
    \A s \in Sessions : Done(s) =>
        \A i \in 1..Len(Table(s)) :
            /\ Table(s)[i][2] >= 0
            /\ Table(s)[i][3] >= 0
            /\ calc[s].raw_usuario[i] < 0 => Table(s)[i][2] = 0
            /\ calc[s].raw_sin_pac[i] < 0 => Table(s)[i][3] = 0
            /\ calc[s].raw_usuario[i] >= 0 => Table(s)[i][2] = calc[s].raw_usuario[i]
            /\ calc[s].raw_sin_pac[i] >= 0 => Table(s)[i][3] = calc[s].raw_sin_pac[i]

C3_Witness ==
    \E s \in Sessions :
        /\ Done(s)
        /\ \E i, j \in 1..5 :
              /\ calc[s].raw_usuario[i] < 0
              /\ calc[s].raw_sin_pac[i] < 0
              /\ calc[s].raw_usuario[j] > 0
              /\ Table(s)[i][2] = 0

\* C4: in every result row the improvement is (treatment - control) /
\* (control + 1e-6) * 100, its divisor is strictly positive, also for a
\* control strength of 0, and it is > 0 exactly when treatment > control.
C4_SignOfMejora ==
    \A s \in Sessions : Done(s) =>
        \A i \in 1..Len(Table(s)) :
            LET t == Table(s)[i][2]
                c == Table(s)[i][3]
                v == Table(s)[i][4]
            IN /\ v.den > 0
               /\ v.den = c * EpsilonInv + 1
               /\ v.num = (t - c) * 100
               /\ Gt0(v) <=> t > c

C4_Witness ==
    \E s \in Sessions :
        /\ Done(s)
        /\ \E i \in 1..5 :
              /\ Table(s)[i][3] = 0
              /\ Table(s)[i][2] > 0
              /\ Gt0(Table(s)[i][4])

\* C5: once a load_assets execution has failed (a file absent or
\* unreadable), every run that ends shows a diagnostic, no session is ever
\* offered the form or the button again, no result is rendered and
\* scaler.transform / model.predict are not called.
C5_NoCalcAfterFailedLoad ==
    failedOnce =>
        /\ \A s \in Sessions :
              /\ ~ui[s].form
              /\ ui[s].view = "none"
              /\ calc[s] = NoCalc
              /\ (pc[s] = "idle" /\ ui[s] # BlankUi) => ui[s].diag # "none"
        /\ ~predictCalls

LoadedOK == cache.set /\ Truthy(cache.value.model) /\ Truthy(cache.value.scaler)

\* C6: the cache entry is written once and never changes afterwards; once
\* the load has succeeded no joblib.load is made again and no new instance
\* is created; every script run that has passed line 26 after a successful
\* load holds the cached (model, scaler) instances.
C6_LoadedOnce ==
    /\ [][cache.set => cache' = cache]_vars
    /\ [][LoadedOK => diskReads' = diskReads /\ nextId' = nextId]_vars
    /\ [](\A s \in Sessions :
            LoadedOK /\ pc[s] = "body" => assets[s] = cache.value)

C6_Witness ==
    /\ LoadedOK
    /\ \E s, t \in Sessions :
          /\ s # t
          /\ pc[s] = "idle" /\ ui[s].form
          /\ pc[t] = "body"
          /\ assets[s] = cache.value
          /\ assets[t] = cache.value

\* C7: for a mix with pac_kg_m3 = 0 and activador_quimico_pct = 0 the
\* treatment rows equal the control rows for all 5 ages, so in all 5 result
\* rows both strengths are equal and the improvement is 0.
C7_NoPacNoChange ==
    \A s \in Sessions :
        (/\ Done(s)
         /\ widgets[s]["pac_kg_m3"] = 0
         /\ widgets[s]["activador_quimico_pct"] = 0) =>
            /\ calc[s].df_usuario = calc[s].df_sin_pac
            /\ \A i \in 1..5 :
                  /\ Table(s)[i][2] = Table(s)[i][3]
                  /\ Table(s)[i][4].num = 0
                  /\ ~Gt0(Table(s)[i][4]) /\ ~Lt0(Table(s)[i][4])

C7_Witness ==
    \E s \in Sessions :
        /\ Done(s)
        /\ widgets[s]["pac_kg_m3"] = 0
        /\ widgets[s]["activador_quimico_pct"] = 0
        /\ widgets[s]["cemento_kg_m3"] > 0
        /\ Table(s)[5][2] > 0
        /\ Table(s)[5][4].num = 0

\* C8: every row given to scaler.transform lists its 10 fields in the order
\* cement, PAC, slag, fly ash, water, superplasticizer, coarse aggregate,
\* fine aggregate, activator, age, although input_data lists the activator
\* third; a treatment row holds the user's 9 values and then its age, a
\* control row the same with PAC and activator 0.
C8_FeatureOrder ==
    \A s \in Sessions : Done(s) =>
        LET w == widgets[s]
        IN /\ calc[s].input_data[3][1] = "activador_quimico_pct"
           /\ calc[s].input_data = user_inputs(w)
           /\ \A i \in 1..5 :
                 /\ calc[s].df_usuario[i] =
                       << w["cemento_kg_m3"], w["pac_kg_m3"],
                          w["escoria_alto_horno_kg_m3"],
                          w["ceniza_volante_kg_m3"], w["agua_kg_m3"],
                          w["superplastificante_kg_m3"],
                          w["agregado_grueso_kg_m3"],
                          w["agregado_fino_kg_m3"],
                          w["activador_quimico_pct"], edades_curado[i] >>
                 /\ calc[s].df_sin_pac[i] =
                       << w["cemento_kg_m3"], 0,
                          w["escoria_alto_horno_kg_m3"],
                          w["ceniza_volante_kg_m3"], w["agua_kg_m3"],
                          w["superplastificante_kg_m3"],
                          w["agregado_grueso_kg_m3"],
                          w["agregado_fino_kg_m3"],
                          0, edades_curado[i] >>

C8_Witness ==
    \E s \in Sessions :
        /\ Done(s)
        /\ widgets[s]["activador_quimico_pct"] > 0
        /\ widgets[s]["escoria_alto_horno_kg_m3"] = 0
        /\ widgets[s]["agregado_fino_kg_m3"] = 0
        /\ calc[s].df_usuario[1][9] > 0
        /\ calc[s].df_usuario[1][3] = 0

\* C10: in the rendered table the cell of the improvement column of every
\* row is styled by its sign: green when > 0, red when < 0, unstyled when
\* 0; the cells of the other columns are unstyled.
C10_ColourBySign ==
    \A s \in Sessions : Done(s) =>
        \A i \in 1..Len(Table(s)) : \A j \in 1..Len(ResultColumns) :
            calc[s].estilos[i][j] =
                IF ResultColumns[j] # COL_VARIACION THEN STYLE_NONE
                ELSE IF Gt0(Table(s)[i][j]) THEN STYLE_POS
                ELSE IF Lt0(Table(s)[i][j]) THEN STYLE_NEG
                ELSE STYLE_NONE

====
